---- MODULE Spec2Model ----
(***************************************************************************)
(* Model of custom_components/petkit/__init__.py: the account session      *)
(* (login, token cache), the polling coordinator's refresh, the shared     *)
(* device registry, the per-coordinator entity bindings and the device's   *)
(* derived views.                                                          *)
(*                                                                         *)
(* A coroutine is split where it suspends on the network (the http         *)
(* request) or, after a login, on the storage write; everything between    *)
(* two suspension points is one action.  update_hass_entities contains no  *)
(* suspension point, so a whole reconciliation loop is one step.           *)
(***************************************************************************)
EXTENDS Integers, Sequences, FiniteSets, TLC

\* ------------------------------------------------------------------ bounds
\* the refreshes a coordinator starts, the first one included
MaxRefresh == 2
\* longest device list a roster response carries
MaxRoster == 2

\* ---------------------------------------------------------------- constants
\* the vendor's "session expired" error code
SESSION_EXPIRED == 5
\* the value of 'time' in a feed request
TIME_NOW == -1
\* feeding_now multiplies the amount by this
AMOUNT_SCALE == 10

SUPPORTED_DOMAINS == <<"sensor", "binary_sensor", "switch">>

\* the usernames an account of the configuration can have
AccountSet == {"a1", "a2"}

\* session ids a login response can carry
Tokens == {"t1", "t2"}

\* the device ids of the vendor; NoId stands for a missing or falsy id
NoId == 0

Ids == {1, 2, 3}

\* a status without a 'food' key
NoFood == -1

\* the data of one roster entry: its id, the entry's type tag, status.food
NoData == [id |-> NoId, type |-> "", food |-> NoFood]

\* what the vendor's roster can hold for the devices
Device1 == {[id |-> 1, type |-> "FeederMini", food |-> f] : f \in {0, 1}}

Device2 == {[id |-> 2, type |-> "D3", food |-> 2]}

Device3 == {[id |-> 3, type |-> "D3", food |-> 2]}

RECURSIVE SeqsUpTo(_, _)
SeqsUpTo(S, n) ==
    IF n = 0 THEN {<<>>}
    ELSE LET shorter == SeqsUpTo(S, n - 1)
         IN  shorter \cup {Append(s, x) : s \in {t \in shorter : Len(t) = n - 1}, x \in S}

\* a decoded response of discovery/device_roster; the empty mapping is code 0
\* with no devices
EmptyRsp == [code |-> 0, devices |-> <<>>]

\* the vendor lists a device once
DistinctIds(dls) ==
    \A i, j \in 1..Len(dls) : i # j /\ dls[i].id # NoId => dls[i].id # dls[j].id

Rosters(es, n) == {dls \in SeqsUpTo(es, n) : DistinctIds(dls)}

AllEntries == {NoData} \cup Device1 \cup Device2 \cup Device3

\* the responses the vendor can give when its roster of the account holds es:
\* error.code 0, another error, or the expired session
RosterResponses(es) ==
    [code : {0, 1}, devices : Rosters(es, MaxRoster)]
    \cup [code : {SESSION_EXPIRED}, devices : Rosters(es, 1)]

\* the same of a vendor whose sessions do not expire
PlainResponses(es) == [code : {0}, devices : Rosters(es, MaxRoster)]

RosterTable ==
    [es \in SUBSET AllEntries |->
        [expires \in BOOLEAN |-> IF expires THEN RosterResponses(es) ELSE PlainResponses(es)]]

\* the responses to a roster request of an account whose roster holds es
VendorResponses(es, expires) ==
    IF es \in SUBSET AllEntries THEN RosterTable[es][expires]
    ELSE IF expires THEN RosterResponses(es) ELSE PlainResponses(es)

\* what http.request / req.json() can do: deliver a mapping, raise TypeError,
\* or raise the client's timeout error
Outcomes == {"json", "type_error", "timeout"}

\* the ways a request can end when bodies are the mappings the vendor can send
Arrivals(bodies, empty) ==
    [out : {"json"}, body : bodies] \cup [out : Outcomes \ {"json"}, body : {empty}]

\* the session object of a login response; id = "" stands for a response
\* without result.session.id
NoSession == [id |-> "", userId |-> ""]

LoginResponses(ts) == {NoSession} \cup [id : ts, userId : {"u1"}]

\* the length of an md5 hexdigest, which the password property tests for
HASH_LEN == 32

\* a configuration without a password: _config.get(CONF_PASSWORD) is None
NoPassword == [text |-> "", len |-> -1, md5 |-> 0]

\* a string as the password property sees it: a text of len characters under md5
\* hexdigests of hexdigests
ClearShort == [text |-> "hunter2", len |-> 7, md5 |-> 0]

\* a clear text of HASH_LEN characters
ClearLong == [text |-> "0123456789abcdefghijklmnopqrstuv", len |-> 32, md5 |-> 0]

StrLen(s) == IF s.md5 > 0 THEN HASH_LEN ELSE s.len

\* hashlib.md5(f'{pwd}'.encode()).hexdigest()
Md5(s) == [s EXCEPT !.md5 = @ + 1]

\* len(pwd) in the password property raises TypeError on None
PasswordRaises(pwd) == pwd = NoPassword

\* PetkitAccount.password on the configured password
password(pwd) == IF StrLen(pwd) # HASH_LEN THEN Md5(pwd) ELSE pwd

\* the stored auth-<username>.json; token "" stands for no file
NoRecord == [token |-> "", uid |-> "", update_at |-> -1, password |-> NoPassword]


\* the stored record of an earlier run
CachedRecord == [token |-> "t1", uid |-> "u1", update_at |-> 0, password |-> NoPassword]

\* PetkitAccount._config of an account configured with a password only
Configured(pwd) == [token |-> "", uid |-> "", password |-> pwd]

\* the installations checked: the accounts of the configuration with what is
\* configured for each, the stored records found at startup, the session ids the
\* vendor issues and the entries its roster of each account can hold
Installations ==
    \* one account, its session in every variety, one device
    {[accounts |-> <<"a1">>, stores |-> {NoRecord, CachedRecord}, tokens |-> Tokens,
      expires |-> [a \in AccountSet |-> TRUE],
      configs |-> [a \in AccountSet |-> Configured(ClearShort)],
      entries |-> [a \in AccountSet |-> {[id |-> 1, type |-> "FeederMini", food |-> 0]}]]}
    \cup
    \* one account with a stored session that lasts, two devices in every variety
    {[accounts |-> <<"a1">>, stores |-> {CachedRecord}, tokens |-> {"t1"},
      expires |-> [a \in AccountSet |-> FALSE],
      configs |-> [a \in AccountSet |-> Configured(ClearShort)],
      entries |-> [a \in AccountSet |-> {NoData} \cup Device1 \cup Device2]]}
    \cup
    \* two accounts with stored sessions that share device 1; the session of the
    \* first one expires
    {[accounts |-> <<"a1", "a2">>, stores |-> {CachedRecord}, tokens |-> {"t1"},
      expires |-> [a \in AccountSet |-> FALSE],
      configs |-> [a \in AccountSet |->
                     Configured(IF a = "a1" THEN Md5(ClearShort) ELSE ClearShort)],
      entries |-> [a \in AccountSet |->
                     IF a = "a1" THEN {[id |-> 1, type |-> "FeederMini", food |-> 0]}
                     ELSE {[id |-> 1, type |-> "FeederMini", food |-> 1],
                           [id |-> 2, type |-> "D3", food |-> 2]}]]}
    \cup
    \* one account configured with a token and no password
    {[accounts |-> <<"a1">>, stores |-> {NoRecord, CachedRecord}, tokens |-> {"t1"},
      expires |-> [a \in AccountSet |-> TRUE],
      configs |-> [a \in AccountSet |-> [token |-> "t2", uid |-> "u1", password |-> NoPassword]],
      entries |-> [a \in AccountSet |-> {[id |-> 1, type |-> "FeederMini", food |-> 0]}]]}
    \cup
    \* one account whose clear password is as long as a hash, one device
    {[accounts |-> <<"a1">>, stores |-> {NoRecord, CachedRecord}, tokens |-> {"t1"},
      expires |-> [a \in AccountSet |-> TRUE],
      configs |-> [a \in AccountSet |-> Configured(ClearLong)],
      entries |-> [a \in AccountSet |-> {[id |-> 1, type |-> "FeederMini", food |-> 0]}]]}

VARIABLES
    accounts,     \* the accounts of the configuration, in the order async_setup walks them
    cloud,        \* the vendor: the session ids it issues, whose sessions expire, its rosters
    setup,        \* async_setup: "running", "done" (returned True) or "failed" (raised)
    setupIdx,     \* the index in Accounts of the account async_setup is at
    registered,   \* the accounts async_setup has stored with their coordinator
    pc,           \* where each account's coroutine is suspended
    config,       \* PetkitAccount._config: the token and user id in memory
    store,        \* the persisted auth-<username>.json of each account
    now,          \* the wall clock: one unit passes before each refresh
    refreshes,    \* how many refreshes each coordinator has started
    held,         \* _async_update_data's local rsp while it waits for the login
    tick,         \* what the current (or last) refresh of each coordinator did
    add_entities, \* hass.data[DOMAIN]['add_entities']: domains with a callback
    heap,         \* every PetkitDevice object constructed so far
    devices,      \* hass.data[DOMAIN][CONF_DEVICES]: id -> heap index, 0 if absent
    subs,         \* DevicesCoordinator._subs of each coordinator
    entities,     \* every observer constructed so far, with its cached attributes
    pending,      \* observers handed to the host and not yet added by it
    addCalls,     \* how often the host's callback was invoked for each key
    last,         \* the step just taken: the roster it reconciled, the listeners it called
    feed          \* the last request feeding_now issued

binderVars == <<heap, devices, subs, entities, pending, addCalls>>

envVars == <<accounts, cloud>>

vars == <<accounts, cloud, setup, setupIdx, registered, pc, config, store, now, refreshes, held, tick,
          add_entities, heap, devices, subs, entities, pending, addCalls, last, feed>>

\* --------------------------------------------------------- PetkitDevice views

\* str.lower() on the type tags the vendor uses
Lower(s) ==
    CASE s = "FeederMini" -> "feedermini"
      [] s = "D3" -> "d3"
      [] s = "D4" -> "d4"
      [] s = "Feeder" -> "feeder"
      [] OTHER -> s

device_id(dat) == dat.id

\* mutant: the type tag as the vendor spells it
device_type_raw(dat) == dat.type

device_type(dat) == Lower(dat.type)

\* self.status.get('food', 0)
StatusFood(dat) == IF dat.food = NoFood THEN 0 ELSE dat.food

\* mutant: the flag the other way round
food_state_nonzero(dat) == StatusFood(dat) # 0

food_state(dat) == StatusFood(dat) = 0

food_state_attrs(dat) ==
    [state |-> dat.food,
     desc |-> IF ~food_state(dat) THEN "normal" ELSE "few"]

\* the capability maps hass_sensor, hass_binary_sensor, hass_switch
Capabilities(domain) ==
    CASE domain = "sensor" -> <<"state", "desiccant">>
      [] domain = "binary_sensor" -> <<"food_state">>
      [] domain = "switch" -> <<"feeding">>

\* hasattr(self._device, self._name): the device has no attribute 'feeding'
HasAttr(cap) == cap \in {"state", "desiccant", "food_state"}

\* ------------------------------------------------------------ PetkitEntity

\* PetkitEntity.__init__: the observer of capability cap of the device at heap
\* index n, made by coordinator a; typ and did fix its entity_id
NewEntity(a, domain, cap, n, dat) ==
    [co |-> a, dom |-> domain, cap |-> cap, dev |-> n,
     did |-> device_id(dat), typ |-> device_type(dat)]

entity_id(e) == <<e.typ, e.did, e.cap>>

\* the attributes of an observer that was never updated (_attr_is_on = False)
FreshCache == [seen |-> NoData, updated |-> FALSE, desc |-> "", is_on |-> FALSE]

\* PetkitEntity.update / PetkitBinaryEntity.update on the device's data
EntityUpdate(e, dat) ==
    [seen |-> dat,
     updated |-> TRUE,
     desc |-> IF e.cap = "food_state" THEN food_state_attrs(dat).desc ELSE "",
     is_on |-> IF e.dom = "sensor" THEN FALSE
               ELSE IF HasAttr(e.cap) /\ e.cap = "food_state" THEN food_state(dat)
               ELSE FALSE]

\* the binary observer's state property
EntityState(c) == IF c.is_on THEN "on" ELSE "off"

\* --------------------------------------------------------- the world a step changes

World == [add |-> add_entities, heap |-> heap, devices |-> devices, subs |-> subs,
          entities |-> entities, pending |-> pending, addCalls |-> addCalls, log |-> <<>>]

DomainSet == {SUPPORTED_DOMAINS[i] : i \in 1..Len(SUPPORTED_DOMAINS)}

\* the binding key f'{domain}.{k}.{dvc.device_id}'
Key(domain, cap, did) == [dom |-> domain, cap |-> cap, did |-> did]

AllKeys ==
    UNION {{Key(d, Capabilities(d)[j], i) : j \in 1..Len(Capabilities(d)), i \in Ids} :
           d \in DomainSet}

\* PetkitDevice._handle_listeners: call the listeners in the dict's order; each
\* one is the observer's _handle_coordinator_update, which reads its own device
RECURSIVE HandleListeners(_, _, _)
HandleListeners(W, n, i) ==
    IF i > Len(W.heap[n].listeners) THEN W
    ELSE LET e == W.heap[n].listeners[i]
             dat == W.heap[e.dev].data
             W1 == [W EXCEPT !.entities[e] = EntityUpdate(e, dat),
                             !.log = Append(@, [ent |-> e, dev |-> n, data |-> dat])]
         IN  HandleListeners(W1, n, i + 1)

\* mutant: the listeners are called before the blob is replaced
update_data_late(W, n, dat) ==
    [HandleListeners(W, n, 1) EXCEPT !.heap[n].data = dat]

\* PetkitDevice.update_data
update_data(W, n, dat) ==
    HandleListeners([W EXCEPT !.heap[n].data = dat], n, 1)

\* PetkitDevice.__init__ followed by the registry insert of line 238
NewDevice(W, a, dat) ==
    LET n == Len(W.heap) + 1
        W1 == [W EXCEPT !.heap = Append(@, [data |-> NoData, listeners |-> <<>>, co |-> a])]
        W2 == update_data(W1, n, dat)
    IN  [W2 EXCEPT !.devices[device_id(dat)] = n]


\* one pass of the loop of update_hass_entities over the capability map
RECURSIVE BindCapabilities(_, _, _, _, _)
BindCapabilities(W, a, domain, n, j) ==
    IF j > Len(Capabilities(domain)) THEN W
    ELSE LET cap == Capabilities(domain)[j]
             dat == W.heap[n].data
             key == Key(domain, cap, device_id(dat))
             new == NewEntity(a, domain, cap, n, dat)
             W1 == IF key \in W.subs[a] THEN W
                   ELSE [W EXCEPT !.subs[a] = @ \cup {key},
                                  !.entities = IF new \in DOMAIN @ THEN @
                                               ELSE @ @@ (new :> FreshCache),
                                  !.pending = Append(@, new),
                                  !.addCalls[key] = @ + 1]
         IN  BindCapabilities(W1, a, domain, n, j + 1)

\* mutant: keys are recorded whether or not the domain has a callback
update_hass_entities_unguarded(W, a, domain, n) == BindCapabilities(W, a, domain, n, 1)

\* DevicesCoordinator.update_hass_entities(domain, dvc), dvc the object at heap
\* index n: nothing without a callback for the domain
update_hass_entities(W, a, domain, n) ==
    IF domain \notin W.add THEN W
    ELSE BindCapabilities(W, a, domain, n, 1)

\* for d in SUPPORTED_DOMAINS: await self.update_hass_entities(d, dvc)
RECURSIVE BindDomains(_, _, _, _)
BindDomains(W, a, n, i) ==
    IF i > Len(SUPPORTED_DOMAINS) THEN W
    ELSE BindDomains(update_hass_entities(W, a, SUPPORTED_DOMAINS[i], n), a, n, i + 1)

\* mutant: every roster entry makes a new device that takes the old one's place
UpsertReplaces(W, a, dat) == NewDevice(W, a, dat)

\* mutant: a coordinator finds only the devices it has registered itself
UpsertOwn(W, a, dat) ==
    LET old == W.devices[device_id(dat)]
    IN  IF old # 0 /\ W.heap[old].co = a THEN update_data(W, old, dat) ELSE NewDevice(W, a, dat)

\* lines 232-238: update the registered device in place, or register a new one
Upsert(W, a, dat) ==
    LET old == W.devices[device_id(dat)]
    IN  IF old # 0 THEN update_data(W, old, dat) ELSE NewDevice(W, a, dat)

\* the body of the loop of _async_update_data for one roster entry
ReconcileEntry(W, a, dat) ==
    IF device_id(dat) = NoId THEN W
    ELSE LET W1 == Upsert(W, a, dat)
         IN  BindDomains(W1, a, W1.devices[device_id(dat)], 1)

\* lines 223-241 of _async_update_data on the response rsp
RECURSIVE ReconcileFrom(_, _, _, _)
ReconcileFrom(W, a, dls, i) ==
    IF i > Len(dls) THEN W
    ELSE ReconcileFrom(ReconcileEntry(W, a, dls[i]), a, dls, i + 1)

\* mutant: an empty roster empties the registry
ReconcileEvicts(W, a, rsp) ==
    IF rsp.devices = <<>> THEN [W EXCEPT !.devices = [d \in Ids |-> 0]]
    ELSE ReconcileFrom(W, a, rsp.devices, 1)

Reconcile(W, a, rsp) == ReconcileFrom(W, a, rsp.devices, 1)

\* the coordinator of account a tells its listeners that a refresh has ended:
\* the observers added to the host whose device that coordinator registered
\* (PetkitEntity takes its coordinator from its device); each one updates itself
UpdateListeners(W, a) ==
    [W EXCEPT !.entities =
        [e \in DOMAIN @ |->
            IF @[e].updated /\ W.heap[e.dev].co = a
            THEN EntityUpdate(e, W.heap[e.dev].data) ELSE @[e]]]

\* the step's world becomes the state
Commit(W) ==
    /\ heap' = W.heap
    /\ devices' = W.devices
    /\ subs' = W.subs
    /\ entities' = W.entities
    /\ pending' = W.pending
    /\ addCalls' = W.addCalls


\* ------------------------------------------------------------ PetkitAccount

\* what one refresh (and, for the first one, the startup before it) has done
\* status: of the refresh; fetches, logins: the roster and login requests it
\* issued; first: the code of its first response; login: how its login ended;
\* cache, authLogins, auth: the record async_check_auth() loaded at startup, the
\* logins it called and how it ended; sent: the X-Session header of the request
\* it issued last; issued: the session id its login was answered with
NoTick == [status |-> "none", fetches |-> 0, logins |-> 0, first |-> -1, login |-> "none",
           authLogins |-> 0, cache |-> NoRecord, auth |-> "none", sent |-> "", issued |-> ""]

\* the same once the refresh is over
EndTick(t, status) == [NoTick EXCEPT !.status = status, !.auth = t.auth]

\* a step that reconciled no roster and called no listener; of a refresh that
\* ended, first, logins and fetches are what NoTick says, rows the roster entries
\* with an id; pwd is the password of a login request the step issued, why the
\* exception it raised
NoLast == [co |-> "", kind |-> "", empty |-> FALSE, ids |-> {}, calls |-> <<>>,
           first |-> -1, logins |-> 0, fetches |-> 0, rows |-> {},
           pwd |-> NoPassword, why |-> ""]

\* the ids a device list names
RosterIds(dls) == {dls[i].id : i \in 1..Len(dls)} \ {NoId}

\* the entries of a device list the loop does not skip
RosterRows(dls) == {dls[i] : i \in {j \in 1..Len(dls) : dls[j].id # NoId}}

\* the headers of request: X-Session is the token at the time of the request
Request(t, a, cfg) == [t EXCEPT ![a].sent = cfg.token]

NoFeed == [api |-> "", pms |-> [deviceId |-> NoId, time |-> 0, amount |-> 0],
           token |-> "", dev |-> 0, q |-> 0]

\* PetkitAccount.request around http.request: the mapping it returns, when it
\* returns; only TypeError is caught
RequestRaises(out) == out = "timeout"

RequestResult(out, body, empty) == IF out = "json" THEN body ELSE empty

\* lines 170-178 of async_login: the session id and the new _config
\* mutant: a response without a session id counts as a login
LoginSucceedsAlways(ssn) == TRUE

LoginSucceeds(ssn) == ssn.id # ""

\* mutant: the login leaves the token of the configuration as it was
LoginConfigStale(cfg, ssn) == [cfg EXCEPT !.uid = ssn.userId]

LoginConfig(cfg, ssn) == [cfg EXCEPT !.token = ssn.id, !.uid = ssn.userId]

\* mutant: every save stamps the current time
SavedRecordStamps(cfg, old, t) ==
    [token |-> cfg.token, uid |-> cfg.uid, update_at |-> t, password |-> NoPassword]

\* mutant: the configuration is saved as it is
SavedRecordWhole(cfg, old, t) ==
    [token |-> cfg.token, uid |-> cfg.uid, password |-> cfg.password,
     update_at |-> IF cfg.token = old.token THEN old.update_at ELSE t]

\* async_check_auth(save=True): the record written over the stored one
SavedRecord(cfg, old, t) ==
    LET popped == [cfg EXCEPT !.password = NoPassword]
    IN  [token |-> popped.token, uid |-> popped.uid, password |-> popped.password,
         update_at |-> IF popped.token = old.token THEN old.update_at ELSE t]

\* mutant: the stored token is never used
HasCachedTokenNever(old) == FALSE

\* async_check_auth(save=False) finds a token in the stored record
HasCachedToken(old) == old.token # ""

AdoptCached(cfg, old) == [cfg EXCEPT !.token = old.token, !.uid = old.uid]

\* ------------------------------------------------------------------ Init

Init ==
    /\ \E inst \in Installations :
         /\ accounts = inst.accounts
         /\ cloud = [tokens |-> inst.tokens, expires |-> inst.expires,
                     entries |-> inst.entries]
         /\ \E st \in [AccountSet -> inst.stores] :
              store = [a \in AccountSet |->
                         IF \E i \in 1..Len(inst.accounts) : inst.accounts[i] = a
                         THEN st[a] ELSE NoRecord]
         /\ config = [a \in AccountSet |->
                        IF \E i \in 1..Len(inst.accounts) : inst.accounts[i] = a
                        THEN inst.configs[a] ELSE Configured(NoPassword)]
    /\ setup = "running"
    /\ setupIdx = 1
    /\ registered = {}
    /\ pc = [a \in AccountSet |-> "new"]
    /\ now = 0
    /\ refreshes = [a \in AccountSet |-> 0]
    /\ held = [a \in AccountSet |-> EmptyRsp]
    /\ tick = [a \in AccountSet |-> NoTick]
    /\ add_entities = {}
    /\ heap = <<>>
    /\ devices = [d \in Ids |-> 0]
    /\ subs = [a \in AccountSet |-> {}]
    /\ entities = <<>>
    /\ pending = <<>>
    /\ addCalls = [k \in AllKeys |-> 0]
    /\ last = NoLast
    /\ feed = NoFeed

\* ------------------------------------------------------- steps of a refresh

\* _async_update_data is entered and suspends in its first request
EnterRefresh(a, t) ==
    /\ refreshes[a] < MaxRefresh
    /\ refreshes' = [refreshes EXCEPT ![a] = @ + 1]
    /\ now' = now + 1
    /\ pc' = [pc EXCEPT ![a] = "fetch1"]
    /\ tick' = [t EXCEPT ![a].status = "running", ![a].fetches = 1, ![a].logins = 0,
                         ![a].first = -1, ![a].login = "none"]
    /\ last' = NoLast

\* an exception leaves the coroutine: the first refresh fails async_setup, a
\* periodic refresh is given up by the coordinator, which tells its listeners
Raise(a, t, why) ==
    /\ tick' = [t EXCEPT ![a] = EndTick(@, "aborted")]
    /\ last' = [NoLast EXCEPT !.co = a, !.kind = "raise", !.why = why]
    /\ IF a \in registered
       THEN /\ pc' = [pc EXCEPT ![a] = "idle"]
            /\ Commit(UpdateListeners(World, a))
            /\ UNCHANGED <<setup, setupIdx, registered>>
       ELSE /\ pc' = [pc EXCEPT ![a] = "dead"]
            /\ setup' = "failed"
            /\ UNCHANGED <<setupIdx, registered>>
            /\ UNCHANGED binderVars

\* lines 223-241, then the coordinator's listeners, and after the first refresh
\* lines 82-90 of async_setup
Finish(a, rsp, t) ==
    /\ LET W == UpdateListeners(Reconcile(World, a, rsp), a)
       IN  /\ Commit(W)
           /\ last' = [NoLast EXCEPT !.co = a, !.kind = "refresh",
                                      !.empty = rsp.devices = <<>>,
                                      !.ids = RosterIds(rsp.devices),
                                      !.rows = RosterRows(rsp.devices),
                                      !.calls = W.log,
                                      !.first = t[a].first,
                                      !.logins = t[a].logins,
                                      !.fetches = t[a].fetches]
    /\ tick' = [t EXCEPT ![a] = EndTick(@, "done")]
    /\ pc' = [pc EXCEPT ![a] = "idle"]
    /\ IF a \in registered
       THEN UNCHANGED <<setup, setupIdx, registered>>
       ELSE /\ registered' = registered \cup {a}
            /\ setupIdx' = setupIdx + 1
            /\ setup' = IF setupIdx = Len(accounts) THEN "done" ELSE setup


\* ----------------------------------------------------------------- actions

\* async_setup reaches account a: PetkitAccount, DevicesCoordinator, then
\* async_check_auth() up to the first request it waits for: the login's when no
\* token is cached, else the first refresh's
SetupAccount(a) ==
    /\ UNCHANGED envVars
    /\ setup = "running"
    /\ setupIdx <= Len(accounts)
    /\ a = accounts[setupIdx]
    /\ pc[a] = "new"
    /\ LET t == [tick EXCEPT ![a].cache = store[a]]
       IN  IF HasCachedToken(store[a])
           THEN /\ config' = [config EXCEPT ![a] = AdoptCached(@, store[a])]
                /\ EnterRefresh(a, Request([t EXCEPT ![a].auth = "cached"], a,
                                           AdoptCached(config[a], store[a])))
                /\ UNCHANGED <<setup, setupIdx, registered>>
           ELSE IF PasswordRaises(config[a].password)
           THEN /\ Raise(a, [t EXCEPT ![a].authLogins = @ + 1, ![a].auth = "raised"],
                         "type_error")
                /\ UNCHANGED <<config, now, refreshes>>
           ELSE /\ pc' = [pc EXCEPT ![a] = "auth_login"]
                /\ tick' = Request([t EXCEPT ![a].authLogins = @ + 1], a, config[a])
                /\ last' = [NoLast EXCEPT !.co = a, !.kind = "login",
                                          !.pwd = password(config[a].password)]
                /\ UNCHANGED <<setup, setupIdx, registered, config, now, refreshes>>
    /\ UNCHANGED <<store, held, add_entities, feed>>
    /\ UNCHANGED binderVars

\* how the login of the step that leaves pc[a] ended, for the record
LoginNote(t, a, how) ==
    IF pc[a] = "auth_login" THEN [t EXCEPT ![a].auth = how] ELSE [t EXCEPT ![a].login = how]

\* the response to user/login arrives in async_login
LoginResponse(a) ==
    /\ UNCHANGED envVars
    /\ pc[a] \in {"auth_login", "login"}
    /\ \E r \in Arrivals(LoginResponses(cloud.tokens), NoSession) :
         LET rsp == RequestResult(r.out, r.body, NoSession)
         IN  IF RequestRaises(r.out)
             THEN /\ Raise(a, LoginNote(tick, a, "raised"), r.out)
                  /\ UNCHANGED <<config, now, refreshes>>
             ELSE IF LoginSucceeds(rsp)
             THEN /\ config' = [config EXCEPT ![a] = LoginConfig(@, rsp)]
                  /\ pc' = [pc EXCEPT ![a] = IF @ = "login" THEN "persist" ELSE "auth_persist"]
                  /\ tick' = [LoginNote(tick, a, "ok") EXCEPT ![a].issued = rsp.id]
                  /\ last' = NoLast
                  /\ UNCHANGED <<setup, setupIdx, registered, now, refreshes>>
                  /\ UNCHANGED binderVars
             ELSE IF pc[a] = "login"
             THEN /\ Finish(a, held[a], LoginNote(tick, a, "failed"))
                  /\ UNCHANGED <<config, now, refreshes>>
             ELSE /\ EnterRefresh(a, Request(LoginNote(tick, a, "failed"), a, config[a]))
                  /\ UNCHANGED <<setup, setupIdx, registered, config>>
                  /\ UNCHANGED binderVars
    /\ UNCHANGED <<store, held, add_entities, feed>>

\* async_check_auth(True) at the end of a successful async_login, resumed after
\* Store.async_load: the record is built and Store.async_save is called, which
\* holds the record from then on and suspends the coroutine
Persist(a) ==
    /\ UNCHANGED envVars
    /\ pc[a] \in {"auth_persist", "persist"}
    /\ store' = [store EXCEPT ![a] = SavedRecord(config[a], @, now)]
    /\ pc' = [pc EXCEPT ![a] = IF pc[a] = "persist" THEN "save" ELSE "auth_save"]
    /\ last' = [NoLast EXCEPT !.co = a, !.kind = "save"]
    /\ UNCHANGED <<setup, setupIdx, registered, config, now, refreshes, held, tick,
                   add_entities, feed>>
    /\ UNCHANGED binderVars

\* Store.async_save returns and async_check_auth with it: async_login is over.
\* In a refresh the roster request is issued again; in async_setup the first
\* refresh begins
AfterSave(a) ==
    /\ UNCHANGED envVars
    /\ pc[a] \in {"auth_save", "save"}
    /\ IF pc[a] = "save"
       THEN /\ pc' = [pc EXCEPT ![a] = "fetch2"]
            /\ tick' = Request([tick EXCEPT ![a].fetches = @ + 1], a, config[a])
            /\ last' = [NoLast EXCEPT !.co = a, !.kind = "resume"]
            /\ UNCHANGED <<now, refreshes>>
       ELSE EnterRefresh(a, Request(tick, a, config[a]))
    /\ UNCHANGED <<setup, setupIdx, registered, config, store, held, add_entities, feed>>
    /\ UNCHANGED binderVars

\* the coordinator's timer fires; it is armed while the coordinator has a
\* listener, which an observer becomes in async_added_to_hass: a listener of the
\* coordinator of its device, the one that registered the device
StartTick(a) ==
    /\ UNCHANGED envVars
    /\ a \in registered
    /\ pc[a] = "idle"
    /\ \E e \in DOMAIN entities : entities[e].updated /\ heap[e.dev].co = a
    /\ EnterRefresh(a, Request(tick, a, config[a]))
    /\ UNCHANGED <<setup, setupIdx, registered, config, store, held, add_entities, feed>>
    /\ UNCHANGED binderVars

\* mutant: every error code makes the refresh log in
FirstResponseAnyError(a) ==
    /\ UNCHANGED envVars
    /\ pc[a] = "fetch1"
    /\ \E r \in Arrivals(VendorResponses(cloud.entries[a], cloud.expires[a]), EmptyRsp) :
         LET rsp == RequestResult(r.out, r.body, EmptyRsp)
             t == [tick EXCEPT ![a].first = rsp.code]
         IN  IF RequestRaises(r.out)
             THEN /\ Raise(a, tick, r.out)
                  /\ UNCHANGED held
             ELSE IF rsp.code # 0 /\ PasswordRaises(config[a].password)
             THEN /\ Raise(a, [t EXCEPT ![a].logins = @ + 1], "type_error")
                  /\ UNCHANGED held
             ELSE IF rsp.code # 0
             THEN /\ held' = [held EXCEPT ![a] = rsp]
                  /\ pc' = [pc EXCEPT ![a] = "login"]
                  /\ tick' = Request([t EXCEPT ![a].logins = @ + 1], a, config[a])
                  /\ last' = [NoLast EXCEPT !.co = a, !.kind = "login",
                                            !.pwd = password(config[a].password)]
                  /\ UNCHANGED <<setup, setupIdx, registered>>
                  /\ UNCHANGED binderVars
             ELSE /\ Finish(a, rsp, t)
                  /\ UNCHANGED held
    /\ UNCHANGED <<config, store, now, refreshes, add_entities, feed>>

\* the response to the first roster request arrives (lines 218-222)
FirstResponse(a) ==
    /\ UNCHANGED envVars
    /\ pc[a] = "fetch1"
    /\ \E r \in Arrivals(VendorResponses(cloud.entries[a], cloud.expires[a]), EmptyRsp) :
         LET rsp == RequestResult(r.out, r.body, EmptyRsp)
             t == [tick EXCEPT ![a].first = rsp.code]
         IN  IF RequestRaises(r.out)
             THEN /\ Raise(a, tick, r.out)
                  /\ UNCHANGED held
             ELSE IF rsp.code = SESSION_EXPIRED /\ PasswordRaises(config[a].password)
             THEN /\ Raise(a, [t EXCEPT ![a].logins = @ + 1], "type_error")
                  /\ UNCHANGED held
             ELSE IF rsp.code = SESSION_EXPIRED
             THEN /\ held' = [held EXCEPT ![a] = rsp]
                  /\ pc' = [pc EXCEPT ![a] = "login"]
                  /\ tick' = Request([t EXCEPT ![a].logins = @ + 1], a, config[a])
                  /\ last' = [NoLast EXCEPT !.co = a, !.kind = "login",
                                            !.pwd = password(config[a].password)]
                  /\ UNCHANGED <<setup, setupIdx, registered>>
                  /\ UNCHANGED binderVars
             ELSE /\ Finish(a, rsp, t)
                  /\ UNCHANGED held
    /\ UNCHANGED <<config, store, now, refreshes, add_entities, feed>>

\* mutant: the retried response is treated like the first one, logging in again
RetryResponseLoops(a) ==
    /\ UNCHANGED envVars
    /\ pc[a] = "fetch2"
    /\ \E r \in Arrivals(VendorResponses(cloud.entries[a], cloud.expires[a]), EmptyRsp) :
         LET rsp == RequestResult(r.out, r.body, EmptyRsp)
         IN  IF RequestRaises(r.out)
             THEN /\ Raise(a, tick, r.out)
                  /\ UNCHANGED held
             ELSE IF rsp.code = SESSION_EXPIRED
             THEN /\ held' = [held EXCEPT ![a] = rsp]
                  /\ pc' = [pc EXCEPT ![a] = "login"]
                  /\ tick' = [tick EXCEPT ![a].logins = @ + 1]
                  /\ last' = NoLast
                  /\ UNCHANGED <<setup, setupIdx, registered>>
                  /\ UNCHANGED binderVars
             ELSE /\ Finish(a, rsp, tick)
                  /\ UNCHANGED held
    /\ UNCHANGED <<config, store, now, refreshes, add_entities, feed>>

\* the response to the retried roster request arrives (line 222)
RetryResponse(a) ==
    /\ UNCHANGED envVars
    /\ pc[a] = "fetch2"
    /\ \E r \in Arrivals(VendorResponses(cloud.entries[a], cloud.expires[a]), EmptyRsp) :
         IF RequestRaises(r.out)
         THEN /\ Raise(a, tick, r.out)
         ELSE Finish(a, RequestResult(r.out, r.body, EmptyRsp), tick)
    /\ UNCHANGED <<config, store, now, refreshes, held, add_entities, feed>>


\* ------------------------------------------------------- platforms and host

\* the inner loop of async_setup_accounts: coordinator.data is the registry,
\* walked in insertion order
RECURSIVE BindRegistry(_, _, _, _)
BindRegistry(W, a, domain, n) ==
    IF n > Len(W.heap) THEN W
    ELSE LET did == device_id(W.heap[n].data)
             W1 == IF W.devices[did] = n THEN update_hass_entities(W, a, domain, n) ELSE W
         IN  BindRegistry(W1, a, domain, n + 1)

\* async_setup_accounts(hass, domain): every stored coordinator, in the order
\* async_setup stored them
RECURSIVE async_setup_accounts(_, _, _)
async_setup_accounts(W, domain, i) ==
    IF i > Len(accounts) THEN W
    ELSE LET a == accounts[i]
             W1 == IF a \in registered THEN BindRegistry(W, a, domain, 1) ELSE W
         IN  async_setup_accounts(W1, domain, i + 1)

\* the platform's setup stores the host's callback for its domain
RegisterCallback(W, domain) == [W EXCEPT !.add = @ \cup {domain}]

\* a platform loaded by async_setup (lines 85-88) is set up, once
async_setup_platform(domain) ==
    /\ UNCHANGED envVars
    /\ setup = "done"
    /\ domain \notin add_entities
    /\ add_entities' = add_entities \cup {domain}
    /\ Commit(async_setup_accounts(RegisterCallback(World, domain), domain, 1))
    /\ last' = [NoLast EXCEPT !.kind = "platform"]
    /\ UNCHANGED <<setup, setupIdx, registered, pc, config, store, now, refreshes, held, tick, feed>>

\* self._device.listeners[self.entity_id] = ...: a dict, so an observer with
\* the same entity_id takes the place of the one registered before
SetListener(ls, e) ==
    IF \E i \in 1..Len(ls) : entity_id(ls[i]) = entity_id(e)
    THEN [i \in 1..Len(ls) |-> IF entity_id(ls[i]) = entity_id(e) THEN e ELSE ls[i]]
    ELSE Append(ls, e)

\* PetkitEntity.async_added_to_hass of observer e: it becomes a listener of
\* its device and is updated once
async_added_to_hass(W, e) ==
    [W EXCEPT !.heap[e.dev].listeners = SetListener(@, e),
              !.entities[e] = EntityUpdate(e, W.heap[e.dev].data)]

RECURSIVE AddAll(_, _)
AddAll(W, es) ==
    IF es = <<>> THEN W ELSE AddAll(async_added_to_hass(W, Head(es)), Tail(es))

\* the host adds the observer of the oldest add([new]) call it has not served
\* yet; every call is served in a task of its own
HostAddsEntities ==
    /\ pending # <<>>
    /\ Commit([async_added_to_hass(World, Head(pending)) EXCEPT !.pending = Tail(@)])
    /\ last' = [NoLast EXCEPT !.kind = "added"]
    /\ UNCHANGED <<setup, setupIdx, registered, pc, config, store, now, refreshes, held, tick,
                   add_entities, feed>>
    /\ UNCHANGED envVars

Next ==
    \/ \E a \in AccountSet : SetupAccount(a)
    \/ \E a \in AccountSet : LoginResponse(a)
    \/ \E a \in AccountSet : Persist(a)
    \/ \E a \in AccountSet : AfterSave(a)
    \/ \E a \in AccountSet : StartTick(a)
    \/ \E a \in AccountSet : FirstResponse(a)
    \/ \E a \in AccountSet : RetryResponse(a)
    \/ \E d \in DomainSet : async_setup_platform(d)
    \/ HostAddsEntities

Spec == Init /\ [][Next]_vars


\* ------------------------------------------------------------- feeding_now

\* amounts are counted in halves of the tenth the vendor counts in
AmountUnit == 2 * AMOUNT_SCALE

\* round(num / den) as Python rounds: to the nearest integer, a half to the even one
PyRound(num, den) ==
    LET f == num \div den
        r == num % den
    IN  IF 2 * r < den THEN f
        ELSE IF 2 * r > den THEN f + 1
        ELSE IF f % 2 = 0 THEN f ELSE f + 1

\* lines 374-379: the endpoint of the device type
FeedApi(typ) ==
    IF typ = "feedermini" THEN "feedermini/save_dailyfeed"
    ELSE IF typ = "d3" THEN "d3/saveDailyFeed"
    ELSE IF typ = "d4" THEN "d4/saveDailyFeed"
    ELSE "feeder/save_dailyfeed"

\* lines 380-385: the parameters for amount q / AmountUnit
FeedParams(dat, q) ==
    [deviceId |-> device_id(dat), time |-> TIME_NOW,
     amount |-> PyRound(q * AMOUNT_SCALE, AmountUnit)]

\* the switch observer of the device at heap index n is turned on with an
\* amount: feeding_now issues its request with the account's current token
feeding_now(n, q) ==
    /\ \E e \in DOMAIN entities : e.dev = n /\ e.cap = "feeding" /\ entities[e].updated
    /\ feed' = [api |-> FeedApi(device_type(heap[n].data)),
                pms |-> FeedParams(heap[n].data, q),
                token |-> config[heap[n].co].token,
                dev |-> n, q |-> q]
    /\ last' = [NoLast EXCEPT !.kind = "feed"]
    /\ UNCHANGED <<setup, setupIdx, registered, pc, config, store, now, refreshes, held, tick,
                   add_entities>>
    /\ UNCHANGED binderVars
    /\ UNCHANGED envVars

\* ----------------------------------------------- one device and its observers

\* the largest amount fed, in AmountUnit-ths
MaxAmount == 31

TypeTags == {"FeederMini", "feedermini", "D3", "d3", "D4", "Feeder", ""}

FoodCodes == {NoFood, 0, 1, 2}

DeviceDatas == [id : Ids, type : TypeTags, food : FoodCodes]

EmptyWorld ==
    [add |-> {}, heap |-> <<>>, devices |-> [d \in Ids |-> 0],
     subs |-> [a \in AccountSet |-> {}], entities |-> <<>>, pending |-> <<>>,
     addCalls |-> [k \in AllKeys |-> 0], log |-> <<>>]

\* the platforms set up one after the other, in the order async_setup loads them
RECURSIVE PlatformsSetUp(_, _)
PlatformsSetUp(W, i) ==
    IF i > Len(SUPPORTED_DOMAINS) THEN W
    ELSE LET d == SUPPORTED_DOMAINS[i]
         IN  PlatformsSetUp(async_setup_accounts(RegisterCallback(W, d), d, 1), i + 1)

\* the installation of one account after its setup and its platforms' setup,
\* when the vendor's first roster held one device with data dat; the vendor
\* lists that device since, with any food level
DeviceInit ==
    /\ accounts = <<"a1">>
    /\ setup = "done"
    /\ setupIdx = 2
    /\ registered = {"a1"}
    /\ pc = [a \in AccountSet |-> IF a = "a1" THEN "idle" ELSE "new"]
    /\ config = [a \in AccountSet |->
                   IF a = "a1" THEN [token |-> "t1", uid |-> "u1", password |-> ClearShort]
                   ELSE Configured(NoPassword)]
    /\ store = [a \in AccountSet |-> IF a = "a1" THEN CachedRecord ELSE NoRecord]
    /\ now = 1
    /\ refreshes = [a \in AccountSet |-> IF a = "a1" THEN 1 ELSE 0]
    /\ held = [a \in AccountSet |-> EmptyRsp]
    /\ tick = [a \in AccountSet |->
                 IF a = "a1" THEN EndTick([NoTick EXCEPT !.auth = "cached"], "done") ELSE NoTick]
    /\ add_entities = DomainSet
    /\ \E dat \in DeviceDatas :
         LET W == PlatformsSetUp(NewDevice(EmptyWorld, "a1", dat), 1)
         IN  /\ cloud = [tokens |-> {"t1"}, expires |-> [a \in AccountSet |-> FALSE],
                         entries |-> [a \in AccountSet |->
                                        {[dat EXCEPT !.food = f] : f \in FoodCodes}]]
             /\ heap = W.heap
             /\ devices = W.devices
             /\ subs = W.subs
             /\ entities = W.entities
             /\ pending = W.pending
             /\ addCalls = W.addCalls
    /\ last = NoLast
    /\ feed = NoFeed

DeviceNext ==
    \/ HostAddsEntities
    \/ \E a \in AccountSet : StartTick(a)
    \/ \E a \in AccountSet : FirstResponse(a)
    \/ \E n \in 1..Len(heap), q \in 0..MaxAmount : feeding_now(n, q)

DeviceSpec == DeviceInit /\ [][DeviceNext]_vars


\* ------------------------------------- two coordinators on the shared registry

\* what the vendor lists for either account: the device both share and one more
SharedEntries ==
    [a \in AccountSet |->
        (IF a = "a1" THEN {[id |-> 1, type |-> "FeederMini", food |-> 0]} ELSE Device2)
            \cup Device3]

\* the installation of two accounts with stored sessions after async_setup, the
\* setup of the platforms and the host's adding of the observers, when the first
\* refresh of each account found its own device only; since then the vendor
\* lists device 3 for both accounts, and both sessions can expire
SharedInit ==
    /\ accounts = <<"a1", "a2">>
    /\ cloud = [tokens |-> {"t1"}, expires |-> [a \in AccountSet |-> TRUE],
                entries |-> SharedEntries]
    /\ setup = "done"
    /\ setupIdx = 3
    /\ registered = {"a1", "a2"}
    /\ pc = [a \in AccountSet |-> "idle"]
    /\ config = [a \in AccountSet |->
                   AdoptCached(Configured(IF a = "a1" THEN Md5(ClearShort) ELSE ClearShort),
                               CachedRecord)]
    /\ store = [a \in AccountSet |-> CachedRecord]
    /\ now = 2
    /\ refreshes = [a \in AccountSet |-> 1]
    /\ held = [a \in AccountSet |-> EmptyRsp]
    /\ tick = [a \in AccountSet |-> EndTick([NoTick EXCEPT !.auth = "cached"], "done")]
    /\ add_entities = DomainSet
    /\ LET W1 == ReconcileEntry(ReconcileEntry(EmptyWorld, "a1",
                                               [id |-> 1, type |-> "FeederMini", food |-> 0]),
                                "a2", [id |-> 2, type |-> "D3", food |-> 2])
           W2 == PlatformsSetUp(W1, 1)
           W == [AddAll(W2, W2.pending) EXCEPT !.pending = <<>>]
       IN  /\ heap = W.heap
           /\ devices = W.devices
           /\ subs = W.subs
           /\ entities = W.entities
           /\ pending = W.pending
           /\ addCalls = W.addCalls
    /\ last = NoLast
    /\ feed = NoFeed

SharedNext ==
    \/ \E a \in AccountSet : StartTick(a)
    \/ \E a \in AccountSet : FirstResponse(a)
    \/ \E a \in AccountSet : LoginResponse(a)
    \/ \E a \in AccountSet : Persist(a)
    \/ \E a \in AccountSet : AfterSave(a)
    \/ \E a \in AccountSet : RetryResponse(a)
    \/ HostAddsEntities

SharedSpec == SharedInit /\ [][SharedNext]_vars

\* ------------------------------------------------------------------ claims

\* the step ends a refresh of coordinator a normally
Completes(a) == tick[a].status = "running" /\ tick'[a].status = "done"

\* C1 as stated: a refresh whose first roster response carries error code 5
\* issues exactly one login and exactly two roster fetches.
C1_TwoFetchesOneLogin ==
    [][\A a \in AccountSet :
         Completes(a) /\ tick[a].first = SESSION_EXPIRED
            => tick[a].logins = 1 /\ tick[a].fetches = 2]_vars

\* C1 amended: a refresh never issues more than one login or more than two roster
\* fetches; after a first response with error code 5 it has issued exactly one
\* login, and when it completes it has issued the second fetch exactly when that
\* login succeeded (two fetches), and only the first one when the login failed.
C1_OneLoginRetryIfLoggedIn ==
    /\ [](\A a \in AccountSet :
            tick[a].status = "running"
               => /\ tick[a].logins <= 1
                  /\ tick[a].fetches <= 2
                  /\ (tick[a].first = SESSION_EXPIRED => tick[a].logins = 1))
    /\ [][\A a \in AccountSet :
            Completes(a) /\ tick[a].first = SESSION_EXPIRED
               => /\ tick[a].logins = 1
                  /\ tick[a].fetches = IF tick[a].login = "ok" THEN 2 ELSE 1]_vars

\* a refresh waits for its retried fetch after one login
C1_Witness ==
    \E a \in AccountSet :
        /\ pc[a] = "fetch2"
        /\ tick[a].first = SESSION_EXPIRED
        /\ tick[a].logins = 1
        /\ tick[a].fetches = 2

\* C2: a refresh whose roster names a registered device keeps the Device object
\* registered under that id and invokes every listener that was registered on it
\* before the refresh.
C2_ListenersSurviveUpsert ==
    [][last'.kind = "refresh"
         => \A d \in last'.ids :
              devices[d] # 0
                 => /\ devices'[d] = devices[d]
                    /\ \A i \in 1..Len(heap[devices[d]].listeners) :
                         \E k \in 1..Len(last'.calls) :
                            /\ last'.calls[k].ent = heap[devices[d]].listeners[i]
                            /\ last'.calls[k].dev = devices[d]]_vars

\* a refresh has just invoked a listener of a device it found registered
C2_Witness ==
    /\ last.kind = "refresh"
    /\ \E k \in 1..Len(last.calls) :
          /\ last.calls[k].ent.did \in last.ids
          /\ last.calls[k].ent.dev = devices[last.calls[k].ent.did]

\* the observers constructed for a binding key
Observers(k) == {e \in DOMAIN entities : Key(e.dom, e.cap, e.did) = k}

\* C3 as stated: over all coordinators, at most one observer is created and the
\* host's callback is invoked at most once for each (domain, capability, device).
C3_OneObserverPerKey ==
    \A k \in AllKeys : Cardinality(Observers(k)) <= 1 /\ addCalls[k] <= 1

\* C4: a refresh that reconciles an empty roster leaves the registry, every
\* Device object (its data and listeners) and every binding map unchanged, and
\* hands no observer to the host.
C4_EmptyRosterNoEviction ==
    [][last'.kind = "refresh" /\ last'.empty
         => /\ devices' = devices
            /\ heap' = heap
            /\ subs' = subs
            /\ pending' = pending
            /\ addCalls' = addCalls]_vars

\* a refresh has just reconciled an empty roster while a device with a listener
\* and its bindings were registered
C4_Witness ==
    /\ last.kind = "refresh"
    /\ last.empty
    /\ \E d \in Ids : devices[d] # 0 /\ heap[devices[d]].listeners # <<>>
    /\ subs[last.co] # {}

\* the step is account a's async_check_auth(True)
Saves(a) == pc[a] \in {"persist", "auth_persist"} /\ pc'[a] # pc[a]

\* C5: a save whose token equals the stored token keeps the stored update_at; a
\* save whose token differs stores the current time.
C5_StampOnlyOnTokenChange ==
    [][\A a \in AccountSet :
         Saves(a)
            => /\ store'[a].token = config[a].token
               /\ (config[a].token = store[a].token
                     => store'[a].update_at = store[a].update_at)
               /\ (config[a].token # store[a].token => store'[a].update_at = now)]_vars

\* a login in a refresh returned the stored token and the save has kept a stamp
\* older than the refresh
C5_Witness ==
    \E a \in AccountSet :
        /\ pc[a] = "fetch2"
        /\ store[a].token = config[a].token
        /\ store[a].update_at < now

\* async_check_auth() of account a has returned and its first refresh waits for
\* its first response
AfterCheckAuth(a) ==
    a \notin registered /\ pc[a] = "fetch1" /\ tick[a].logins = 0

\* C6: at startup a stored token is adopted, with the stored user id, without a
\* login request; without a stored token the login is called exactly once.
C6_CachedTokenNoLogin ==
    \A a \in AccountSet :
        /\ (tick[a].cache.token # "" /\ a \notin registered
              => /\ tick[a].authLogins = 0
                 /\ pc[a] \notin {"auth_login", "auth_persist", "auth_save"})
        /\ (AfterCheckAuth(a) /\ tick[a].cache.token # ""
              => /\ config[a].token = tick[a].cache.token
                 /\ config[a].uid = tick[a].cache.uid)
        /\ (AfterCheckAuth(a) /\ tick[a].cache.token = "" => tick[a].authLogins = 1)

\* the stored token was adopted and the first refresh is under way
C6_Witness ==
    \E a \in AccountSet :
        /\ AfterCheckAuth(a)
        /\ tick[a].cache.token # ""
        /\ config[a].token = tick[a].cache.token

\* C7 as stated: an account whose startup login failed gets no first refresh and
\* is not registered.
C7_FailedLoginStopsSetup ==
    \A a \in AccountSet :
        tick[a].auth = "failed" => refreshes[a] = 0 /\ a \notin registered

\* C8 as stated: a request that times out yields an empty mapping and the
\* refresh goes on to reconcile; no refresh is given up and setup does not fail.
C8_TimeoutIsSoft ==
    /\ \A a \in AccountSet : tick[a].status # "aborted"
    /\ setup # "failed"
    /\ last.kind # "raise"

\* the food_state observers listening on the device at heap index n
FoodObservers(n) ==
    {heap[n].listeners[i] : i \in 1..Len(heap[n].listeners)}
        \cap {e \in DOMAIN entities : e.cap = "food_state"}

\* C9 as stated: food code 0 is reported as "normal" and off, a nonzero code as
\* "few" and on.
C9_ZeroIsNormal ==
    \A n \in 1..Len(heap) : \A e \in FoodObservers(n) :
        /\ (heap[n].data.food = 0
              => entities[e].desc = "normal" /\ EntityState(entities[e]) = "off")
        /\ (heap[n].data.food \notin {0, NoFood}
              => entities[e].desc = "few" /\ EntityState(entities[e]) = "on")

\* C9 amended: food code 0 (or a status without a food code) is reported as
\* "few" and on, every nonzero code as "normal" and off.
C9_ZeroIsFew ==
    \A n \in 1..Len(heap) : \A e \in FoodObservers(n) :
        /\ (heap[n].data.food \in {0, NoFood}
              => entities[e].desc = "few" /\ EntityState(entities[e]) = "on")
        /\ (heap[n].data.food \notin {0, NoFood}
              => entities[e].desc = "normal" /\ EntityState(entities[e]) = "off")

\* a listening food_state observer was notified of food code 0 by a refresh
C9_Witness ==
    /\ last.kind = "refresh"
    /\ \E k \in 1..Len(last.calls) :
          /\ last.calls[k].ent.cap = "food_state"
          /\ last.calls[k].data.food = 0
          /\ entities[last.calls[k].ent].seen.food = 0

\* C10: the request of feeding_now goes to feedermini/save_dailyfeed for type
\* feedermini, to <type>/saveDailyFeed for d3 and d4, to feeder/save_dailyfeed
\* otherwise, the type tag compared in lower case; it carries the device's id,
\* time -1 and ten times the amount rounded to an integer (1.5 gives 15).
C10_FeedRequest ==
    feed.dev # 0
       => LET dat == heap[feed.dev].data
          IN  /\ (dat.type \in {"FeederMini", "feedermini"}
                    => feed.api = "feedermini/save_dailyfeed")
              /\ (dat.type \in {"D3", "d3"} => feed.api = "d3/saveDailyFeed")
              /\ (dat.type \in {"D4", "d4"} => feed.api = "d4/saveDailyFeed")
              /\ (dat.type \in {"Feeder", "feeder", ""} => feed.api = "feeder/save_dailyfeed")
              /\ feed.pms.deviceId = dat.id
              /\ feed.pms.time = -1
              /\ 2 * feed.pms.amount - feed.q \in {-1, 0, 1}
              /\ (feed.q % 2 = 0 => 2 * feed.pms.amount = feed.q)
              /\ (feed.q = 30 => feed.pms.amount = 15)

\* feeding_now(1.5) was called on a device whose type tag is FeederMini
C10_Witness ==
    /\ feed.dev # 0
    /\ feed.q = 30
    /\ heap[feed.dev].data.type = "FeederMini"
    /\ feed.api = "feedermini/save_dailyfeed"
    /\ feed.pms.amount = 15

\* C11 as stated: the password of every login request is the md5 hexdigest of the
\* configured password, never the configured clear text, and a configured
\* hexdigest is sent as it is.
C11_PasswordSentHashed ==
    last.kind = "login"
       => LET pwd == config[last.co].password
          IN  /\ last.pwd.md5 > 0
              /\ (pwd.md5 > 0 => last.pwd = pwd)
              /\ (pwd.md5 = 0 => last.pwd = Md5(pwd))

\* account a's async_check_auth(True) was the last thing its coroutine did
JustSaved(a) ==
    \/ pc[a] \in {"save", "auth_save", "fetch2"}
    \/ pc[a] = "fetch1" /\ a \notin registered /\ tick[a].auth = "ok"

\* C12: the stored record of an account never holds a password, clear or hashed;
\* what a save writes is the account's token and user id without the password.
C12_NoPasswordStored ==
    \A a \in AccountSet :
        /\ store[a].password = NoPassword
        /\ (JustSaved(a)
              => store[a].token = config[a].token /\ store[a].uid = config[a].uid)

\* an account configured with a password has just saved its session
C12_Witness ==
    /\ last.kind = "save"
    /\ config[last.co].password # NoPassword
    /\ store[last.co].token = config[last.co].token
    /\ store[last.co].token # ""

\* C13: a refresh whose first roster response carries an error code other than 5
\* (no error, an empty or malformed response included) issues no login and
\* exactly one roster fetch; a login, a save or a retried fetch is under way only
\* after a first response with code 5.
C13_ReloginOnlyOnExpiry ==
    /\ (last.kind = "refresh" /\ last.first # SESSION_EXPIRED
          => last.logins = 0 /\ last.fetches = 1)
    /\ \A a \in AccountSet :
          pc[a] \in {"login", "persist", "save", "fetch2"} => tick[a].first = SESSION_EXPIRED

\* a refresh has ended whose only response carried an error code that is not 5
C13_Witness ==
    /\ last.kind = "refresh"
    /\ last.first = 1
    /\ last.logins = 0
    /\ last.fetches = 1

\* C14: a registry entry, once made, is never replaced by another Device object,
\* no Device changes its id, and the Device registered under id k has device_id k.
C14_RegistryEntriesKept ==
    /\ [](\A d \in Ids : devices[d] # 0 => device_id(heap[devices[d]].data) = d)
    /\ [][/\ \A d \in Ids : devices[d] # 0 => devices'[d] = devices[d]
          /\ \A n \in 1..Len(heap) :
                device_id(heap'[n].data) = device_id(heap[n].data)]_vars

\* a refresh of the second account has reconciled an entry for the device the
\* first account's coordinator registered
C14_Witness ==
    /\ last.kind = "refresh"
    /\ last.co = "a2"
    /\ \E d \in last.ids : devices[d] # 0 /\ heap[devices[d]].co = "a1"

\* the calls a step made to listener e of the device at heap index n
CallsOf(calls, e, n) == {k \in 1..Len(calls) : calls[k].ent = e /\ calls[k].dev = n}

\* C15: update_data makes the new blob the device's whole data and then calls
\* every listener registered on the device before the update exactly once; every
\* listener it calls reads the new blob.
C15_ListenersSeeNewBlob ==
    [][last'.kind = "refresh"
         => \A r \in last'.rows :
              LET n == devices'[device_id(r)]
              IN  /\ heap'[n].data = r
                  /\ devices[device_id(r)] # 0
                        => \A i \in 1..Len(heap[n].listeners) :
                             Cardinality(CallsOf(last'.calls, heap[n].listeners[i], n)) = 1
                  /\ \A k \in 1..Len(last'.calls) :
                        last'.calls[k].dev = n
                           => /\ last'.calls[k].data = r
                              /\ entities'[last'.calls[k].ent].seen = r]_vars

\* an update has taken the food code out of the blob and every listener of the
\* device, the four observers, was called with the blob without it
C15_Witness ==
    /\ last.kind = "refresh"
    /\ Len(last.calls) = 4
    /\ \A k \in 1..Len(last.calls) :
          /\ last.calls[k].data.food = NoFood
          /\ heap[last.calls[k].dev].data = last.calls[k].data

\* C16 as stated: whatever the accepted account configuration and whatever the
\* vendor answers, login, load-or-login and request raise nothing to the refresh
\* or to async_setup (a request left without an answer is the case of C8).
C16_NothingRaises ==
    last.kind = "raise" => last.why = "timeout"

\* C17: the request a coroutine waits for carries the token the account held
\* when it was issued; the retried fetch after a successful login carries the
\* session id that login was answered with, and the stored record already holds
\* that id while the retried fetch is under way.
C17_RetryCarriesNewToken ==
    \A a \in AccountSet :
        /\ (pc[a] \in {"auth_login", "login", "fetch1", "fetch2"}
              => tick[a].sent = config[a].token)
        /\ (pc[a] = "fetch2"
              => /\ tick[a].login = "ok"
                 /\ tick[a].sent = tick[a].issued
                 /\ store[a].token = tick[a].issued)

\* the stored session t1 had expired, the login was answered with t2 and the
\* retried fetch is under way with t2
C17_Witness ==
    \E a \in AccountSet :
        /\ pc[a] = "fetch2"
        /\ tick[a].cache.token = "t1"
        /\ tick[a].issued = "t2"
        /\ tick[a].sent = "t2"

\* C18: a login answered without a session id changes neither the token and user
\* id in memory nor the stored record; in a refresh no retried fetch follows and
\* the refresh reconciles its first response; so every save follows a login that
\* was answered with a session id.
C18_FailedLoginChangesNothing ==
    [][\A a \in AccountSet :
         /\ (pc[a] = "login" /\ last'.kind = "refresh" /\ last'.co = a
               => /\ config'[a] = config[a]
                  /\ store'[a] = store[a]
                  /\ last'.logins = 1
                  /\ last'.fetches = 1
                  /\ last'.rows = RosterRows(held[a].devices)
                  /\ last'.empty = (held[a].devices = <<>>))
         /\ (pc[a] = "auth_login" /\ pc'[a] = "fetch1"
               => /\ config'[a] = config[a]
                  /\ store'[a] = store[a])
         /\ (Saves(a)
               => /\ tick[a].issued # ""
                  /\ config[a].token = tick[a].issued
                  /\ store'[a].token = tick[a].issued)]_vars

\* a refresh has ended after a first response with code 5 and a failed login:
\* one fetch, and the device of the first response reconciled
C18_Witness ==
    /\ last.kind = "refresh"
    /\ last.first = SESSION_EXPIRED
    /\ last.logins = 1
    /\ last.fetches = 1
    /\ last.rows # {}

\* the Device objects constructed for id d
ObjectsOf(d) == {n \in 1..Len(heap) : device_id(heap[n].data) = d}

\* C19: with two coordinators on the shared registry whose refreshes interleave
\* at their requests and logins, at most one Device object is ever constructed
\* for a device id, and it is the one the registry holds under that id.
C19_OneDevicePerId ==
    \A d \in Ids :
        /\ Cardinality(ObjectsOf(d)) <= 1
        /\ ObjectsOf(d) = IF devices[d] = 0 THEN {} ELSE {devices[d]}

\* the second coordinator has just registered device 3 while the refresh of the
\* first one, whose first response named device 3 too, waits for its login
C19_Witness ==
    /\ last.kind = "refresh"
    /\ last.co = "a2"
    /\ 3 \in last.ids
    /\ devices[3] # 0
    /\ heap[devices[3]].co = "a2"
    /\ pc["a1"] = "login"
    /\ 3 \in RosterIds(held["a1"].devices)

\* the observers coordinator a constructed for key k and handed to the host
Handed(a, k) ==
    {e \in DOMAIN entities :
        /\ e.co = a
        /\ Key(e.dom, e.cap, e.did) = k
        /\ (entities[e].updated \/ \E i \in 1..Len(pending) : pending[i] = e)}

\* the keys of device id in domain d
KeysOf(d, id) == {Key(d, Capabilities(d)[j], id) : j \in 1..Len(Capabilities(d))}

\* C20: a key is in a coordinator's binding map exactly when that coordinator
\* constructed an observer for it and handed it to the callback of its domain,
\* once; a bind without a callback for the domain records nothing, so the setup
\* of a platform, and any refresh after it, binds every device it walks.
C20_BindingsMatchObservers ==
    /\ [](\A k \in AllKeys :
            /\ \A a \in AccountSet :
                  /\ (k \in subs[a] <=> Handed(a, k) # {})
                  /\ (k \in subs[a] => k.dom \in add_entities)
            /\ addCalls[k] = Cardinality({a \in AccountSet : k \in subs[a]}))
    /\ [][/\ last'.kind = "platform"
             => \A d \in add_entities' \ add_entities : \A a \in registered : \A id \in Ids :
                  devices[id] # 0 => KeysOf(d, id) \subseteq subs'[a]
          /\ last'.kind = "refresh"
             => \A d \in add_entities : \A id \in last'.ids :
                  KeysOf(d, id) \subseteq subs'[last'.co]]_vars

\* the first platform has been set up and has bound a device that the startup
\* refresh had registered without binding it
C20_Witness ==
    /\ last.kind = "platform"
    /\ Cardinality(add_entities) = 1
    /\ \E a \in registered : \E id \in Ids :
          /\ devices[id] # 0
          /\ \E d \in add_entities : KeysOf(d, id) \subseteq subs[a]

====
